---- MODULE Spec2Model ----
(***************************************************************************)
(* EIP-4844 blob transaction sidecar: versioned hashes, validation against *)
(* expected versioned hashes, and the header-less RLP codec                *)
(* (crates/eips/src/eip4844/sidecar.rs).                                   *)
(***************************************************************************)
EXTENDS Integers, Sequences, FiniteSets, TLC

(***************************************************************************)
(* Bounds of the model.                                                    *)
(***************************************************************************)
\* longest blob / commitment / proof / expected-hash sequence explored
MaxBlobs == 2
\* bytes of one Blob in the model (the protocol's blob is far longer; any
\* length above 55 takes the same long-form RLP string header)
BlobBytes == 56
\* number of sidecar encodings the output buffer may hold
MaxEncodes == 2

(***************************************************************************)
(* Program constants.                                                      *)
(***************************************************************************)
VERSIONED_HASH_VERSION_KZG == 1
\* size in bytes of one blob: the length of the model's blob values
BYTES_PER_BLOB == BlobBytes
BYTES_PER_COMMITMENT == 48
BYTES_PER_PROOF == 48
B256_LEN == 32

(***************************************************************************)
(* Byte strings.                                                           *)
(***************************************************************************)
Bytes(n, first, rest) == [j \in 1..n |-> IF j = 1 THEN first ELSE rest]

Min(a, b) == IF a < b THEN a ELSE b

SeqsUpTo(S, n) == UNION {[1..k -> S] : k \in 0..n}

\* Blob values (FixedBytes<BYTES_PER_BLOB>)
BlobSet == {Bytes(BlobBytes, 0, 0), Bytes(BlobBytes, 171, 205)}
\* Commitment values (Bytes48)
CommitmentSet == {Bytes(BYTES_PER_COMMITMENT, 192, 1), Bytes(BYTES_PER_COMMITMENT, 193, 1)}
\* Proof values (Bytes48)
ProofSet == {Bytes(BYTES_PER_PROOF, 160, 2)}
\* SHA-256 digests the hash function may return for a commitment
DigestSet == {Bytes(B256_LEN, 0, 17), Bytes(B256_LEN, 1, 34)}
\* a 32-byte value that is no versioned hash
ArbitraryHash == Bytes(B256_LEN, 238, 238)
\* the trusted setups a caller may hand to validate
KzgSettingsSet == {"trusted_setup"}
\* c_kzg::Error values the library may answer with
KzgErrorSet == {[kind |-> "BadArgs"], [kind |-> "CError"]}
\* what the batched proof verification may answer: Ok(true), Ok(false), Err(e)
KzgOutcomes == {[ok |-> TRUE, val |-> TRUE], [ok |-> TRUE, val |-> FALSE]}
                 \cup {[ok |-> FALSE, err |-> e] : e \in KzgErrorSet}

VARIABLES
    sidecar,                \* BlobTransactionSidecar {blobs, commitments, proofs}
    sha256,                 \* the SHA-256 function on commitments
    kzg_settings,           \* the trusted-setup handle (c_kzg::KzgSettings)
    pc,                     \* position of the running validate call
    blob_versioned_hashes,  \* validate's argument
    idx,                    \* position of validate's zip iteration (1-based)
    result,                 \* what validate returned
    kzg_calls,              \* calls of verify_blob_kzg_proof_batch made by the call
    steps,                  \* gates the running call has executed, in order
    wire,                   \* the byte buffer encode appends to and decode reads from
    written,                \* bytes the last encode appended to buf
    decoded,                \* what the last decode returned
    item,                   \* the BlobTransactionSidecarItem taken from iter()
    item_hash,              \* what to_kzg_versioned_hash returned for item
    anchor,                 \* the BlockNumHash verify_blob was given
    item_calls,             \* c_kzg calls made for item, in order
    item_proof,             \* what verify_blob_kzg_proof returned for item
    item_result,            \* what verify_blob returned for item
    sized,                  \* what size() returned
    items,                  \* the items iter() yielded, collected in order
    keccak256,              \* the Keccak-256 function on account encodings
    TRIE_HASH,              \* the static OnceLock<B256> of Account::trie_hash
    thread                  \* per thread: its call on an Account and the result

envVars == <<sidecar, sha256, kzg_settings>>
validateVars == <<pc, blob_versioned_hashes, idx, result, kzg_calls, steps>>
codecVars == <<wire, written, decoded>>
itemVars == <<item, item_hash, anchor, item_calls, item_proof, item_result>>
queryVars == <<sized, items>>
accountVars == <<keccak256, TRIE_HASH, thread>>
sidecarVars == <<envVars, validateVars, codecVars, itemVars, queryVars>>
vars == <<envVars, validateVars, codecVars, itemVars, queryVars, accountVars>>

None == [tag |-> "None"]

(***************************************************************************)
(* BlobTransactionSidecar                                                  *)
(***************************************************************************)
new(blobs, commitments, proofs) ==
    [blobs |-> blobs, commitments |-> commitments, proofs |-> proofs]

Sidecars ==
    {new(b, c, p) : b \in SeqsUpTo(BlobSet, MaxBlobs),
                    c \in SeqsUpTo(CommitmentSet, MaxBlobs),
                    p \in SeqsUpTo(ProofSet, MaxBlobs)}

\* faulty variant: the position counted from one
iter_from_one(sc) ==
    [k \in 1..Min(Min(Len(sc.blobs), Len(sc.commitments)), Len(sc.proofs)) |->
        [index |-> k,
         blob |-> sc.blobs[k],
         kzg_commitment |-> sc.commitments[k],
         kzg_proof |-> sc.proofs[k]]]

\* iter(): blobs, commitments and proofs zipped, with the 0-based position
iter(sc) ==
    [k \in 1..Min(Min(Len(sc.blobs), Len(sc.commitments)), Len(sc.proofs)) |->
        [index |-> k - 1,
         blob |-> sc.blobs[k],
         kzg_commitment |-> sc.commitments[k],
         kzg_proof |-> sc.proofs[k]]]

\* faulty variant: every sequence taken to be as long as the blobs
size_by_blobs(sc) ==
    Len(sc.blobs) * (BYTES_PER_BLOB + BYTES_PER_COMMITMENT + BYTES_PER_PROOF)

\* BlobTransactionSidecar::size
size(sc) ==
    Len(sc.blobs) * BYTES_PER_BLOB
        + Len(sc.commitments) * BYTES_PER_COMMITMENT
        + Len(sc.proofs) * BYTES_PER_PROOF

(***************************************************************************)
(* Versioned hash                                                          *)
(***************************************************************************)
Sha256(bytes) == sha256[bytes]

\* faulty variant: the digest as it is, byte 0 not overwritten
to_kzg_versioned_hash_raw(self) == Sha256(self.kzg_commitment)

\* BlobTransactionSidecarItem::to_kzg_versioned_hash
to_kzg_versioned_hash(self) ==
    LET hash == Sha256(self.kzg_commitment)
    IN  [hash EXCEPT ![1] = VERSIONED_HASH_VERSION_KZG]

\* kzg_to_versioned_hash: SHA256(commitment) with byte 0 set to the version
kzg_to_versioned_hash(commitment) ==
    [j \in 1..B256_LEN |->
        IF j = 1 THEN VERSIONED_HASH_VERSION_KZG ELSE Sha256(commitment)[j]]

\* the 32-byte values a caller may supply as expected versioned hashes
HashSet == {kzg_to_versioned_hash(c) : c \in CommitmentSet} \cup {ArbitraryHash}

(***************************************************************************)
(* BlobTransactionValidationError and validate's results                   *)
(***************************************************************************)
Ok == [tag |-> "Ok"]
InvalidProof == [tag |-> "InvalidProof"]
KZGError(source) == [tag |-> "KZGError", source |-> source]
WrongVersionedHash(have, expected) ==
    [tag |-> "WrongVersionedHash", have |-> have, expected |-> expected]

\* c_kzg::Error::MismatchLength(format!("There are {} versioned commitment
\* hashes and {} commitments", ..)): the message as its pieces
MismatchLength(n_hashes, n_commitments) ==
    [kind |-> "MismatchLength",
     msg |-> <<"There are ", n_hashes, " versioned commitment hashes and ",
               n_commitments, " commitments">>]

(***************************************************************************)
(* RLP (alloy_rlp): headers, byte strings and lists of byte strings        *)
(***************************************************************************)
EMPTY_STRING_CODE == 128
EMPTY_LIST_CODE == 192
RLP_SHORT_MAX == 55

Good(val, rest) == [ok |-> TRUE, val |-> val, rest |-> rest]
Bad(err, rest) == [ok |-> FALSE, err |-> err, rest |-> rest]

Drop(s, n) == SubSeq(s, n + 1, Len(s))
Take(s, n) == SubSeq(s, 1, n)

\* big-endian bytes of n without leading zeros
RECURSIVE to_be_bytes(_)
to_be_bytes(n) == IF n = 0 THEN <<>> ELSE Append(to_be_bytes(n \div 256), n % 256)

\* value of big-endian bytes
RECURSIVE from_be_bytes(_)
from_be_bytes(b) ==
    IF b = <<>> THEN 0 ELSE from_be_bytes(Take(b, Len(b) - 1)) * 256 + b[Len(b)]

\* number of bytes n takes in big-endian, counted without building them
RECURSIVE be_len(_)
be_len(n) == IF n = 0 THEN 0 ELSE 1 + be_len(n \div 256)

\* length of the header of a payload
length_of_length(payload_length) ==
    IF payload_length <= RLP_SHORT_MAX THEN 1 ELSE 1 + be_len(payload_length)

\* Header::encode
HeaderEncode(list, payload_length) ==
    LET code == IF list THEN EMPTY_LIST_CODE ELSE EMPTY_STRING_CODE
    IN  IF payload_length <= RLP_SHORT_MAX
        THEN <<code + payload_length>>
        ELSE LET len_be == to_be_bytes(payload_length)
             IN  <<code + RLP_SHORT_MAX + Len(len_be)>> \o len_be

\* <[u8] as Encodable>::encode, through FixedBytes<N> and [u8; N]
BytesEncode(bytes) ==
    IF Len(bytes) = 1 /\ bytes[1] < EMPTY_STRING_CODE
    THEN bytes
    ELSE HeaderEncode(FALSE, Len(bytes)) \o bytes

\* <[u8] as Encodable>::length
BytesLength(bytes) ==
    IF Len(bytes) = 1 /\ bytes[1] < EMPTY_STRING_CODE
    THEN 1
    ELSE Len(bytes) + length_of_length(Len(bytes))

\* sum of the encoded lengths of a list's elements
RECURSIVE PayloadLength(_)
PayloadLength(v) ==
    IF v = <<>> THEN 0 ELSE BytesLength(Head(v)) + PayloadLength(Tail(v))

RECURSIVE PayloadEncode(_)
PayloadEncode(v) ==
    IF v = <<>> THEN <<>> ELSE BytesEncode(Head(v)) \o PayloadEncode(Tail(v))

\* <Vec<T> as Encodable>::encode: the list header, then every element
ListEncode(v) == HeaderEncode(TRUE, PayloadLength(v)) \o PayloadEncode(v)

\* <Vec<T> as Encodable>::length
ListLength(v) ==
    LET payload_length == PayloadLength(v)
    IN  payload_length + length_of_length(payload_length)

\* Header::decode: the header at the front of buf; rest is buf behind it
HeaderDecode(buf) ==
    IF buf = <<>> THEN Bad("InputTooShort", buf)
    ELSE
    LET b == buf[1]
        after == Drop(buf, 1)
        long == (b > EMPTY_STRING_CODE + RLP_SHORT_MAX /\ b < EMPTY_LIST_CODE)
                    \/ b > EMPTY_LIST_CODE + RLP_SHORT_MAX
        list == b >= EMPTY_LIST_CODE
        len_of_len == IF list THEN b - (EMPTY_LIST_CODE + RLP_SHORT_MAX)
                      ELSE b - (EMPTY_STRING_CODE + RLP_SHORT_MAX)
        checked(h, rest) ==
            IF Len(rest) < h.payload_length THEN Bad("InputTooShort", rest)
            ELSE Good(h, rest)
    IN  IF b < EMPTY_STRING_CODE
        THEN checked([list |-> FALSE, payload_length |-> 1], buf)
        ELSE IF long
        THEN IF Len(after) < len_of_len THEN Bad("InputTooShort", after)
             ELSE IF after[1] = 0 THEN Bad("LeadingZero", Drop(after, len_of_len))
             ELSE LET payload_length == from_be_bytes(Take(after, len_of_len))
                  IN  IF payload_length <= RLP_SHORT_MAX
                      THEN Bad("NonCanonicalSize", Drop(after, len_of_len))
                      ELSE checked([list |-> list, payload_length |-> payload_length],
                                   Drop(after, len_of_len))
        ELSE IF list
        THEN checked([list |-> TRUE, payload_length |-> b - EMPTY_LIST_CODE], after)
        ELSE LET payload_length == b - EMPTY_STRING_CODE
             IN  IF payload_length = 1 /\ after = <<>> THEN Bad("InputTooShort", after)
                 ELSE IF payload_length = 1 /\ after[1] < EMPTY_STRING_CODE
                 THEN Bad("NonCanonicalSingleByte", after)
                 ELSE checked([list |-> FALSE, payload_length |-> payload_length], after)

\* Header::decode_bytes, given the decoded header h: the payload of the
\* string (or list) and the buffer behind it
header_payload(h, is_list) ==
    IF ~h.ok THEN h
    ELSE IF h.val.list # is_list
    THEN Bad(IF is_list THEN "UnexpectedString" ELSE "UnexpectedList", h.rest)
    ELSE Good(Take(h.rest, h.val.payload_length), Drop(h.rest, h.val.payload_length))

\* Header::decode_bytes
decode_bytes(buf, is_list) == header_payload(HeaderDecode(buf), is_list)

\* <[u8; N]>::try_from(bytes) on the payload r, or Error::UnexpectedLength
fixed_try_from(r, n) ==
    IF ~r.ok THEN r
    ELSE IF Len(r.val) # n THEN Bad("UnexpectedLength", r.rest)
    ELSE r

\* <[u8; N] as Decodable>::decode, through FixedBytes<N>
FixedDecode(buf, n) == fixed_try_from(decode_bytes(buf, FALSE), n)

\* vec.push(e) in front of the elements tl decoded behind it
vec_push(e, tl) ==
    IF ~tl.ok THEN tl ELSE Good(<<e.val>> \o tl.val, tl.rest)

\* the loop of <Vec<T> as Decodable>::decode over the list's payload
RECURSIVE ElementsDecode(_, _)
elements_next(e, n) ==
    IF ~e.ok THEN e ELSE vec_push(e, ElementsDecode(e.rest, n))

ElementsDecode(payload, n) ==
    IF payload = <<>> THEN Good(<<>>, payload)
    ELSE elements_next(FixedDecode(payload, n), n)

\* the elements es of a list, with the buffer behind the list
list_value(es, rest) ==
    IF ~es.ok THEN Bad(es.err, rest) ELSE Good(es.val, rest)

\* <Vec<T> as Decodable>::decode, given the list's payload r
list_elements(r, n) ==
    IF ~r.ok THEN r ELSE list_value(ElementsDecode(r.val, n), r.rest)

\* <Vec<FixedBytes<N>> as Decodable>::decode
ListDecode(buf, n) == list_elements(decode_bytes(buf, TRUE), n)

(***************************************************************************)
(* The sidecar's codec                                                     *)
(***************************************************************************)
\* faulty variant: the three lists enclosed in one list header
encode_inner_enclosed(sc, out) ==
    out \o HeaderEncode(TRUE, ListLength(sc.blobs) + ListLength(sc.commitments)
                                + ListLength(sc.proofs))
        \o ListEncode(sc.blobs) \o ListEncode(sc.commitments) \o ListEncode(sc.proofs)

\* encode_inner: blobs, commitments, proofs appended to out, no header
encode_inner(sc, out) ==
    out \o ListEncode(sc.blobs) \o ListEncode(sc.commitments) \o ListEncode(sc.proofs)

\* faulty variant: the proofs left out of the length
fields_len_no_proofs(sc) ==
    ListLength(sc.blobs) + ListLength(sc.commitments)

fields_len(sc) ==
    ListLength(sc.blobs) + ListLength(sc.commitments) + ListLength(sc.proofs)

\* <BlobTransactionSidecar as Encodable>::encode
encode(sc, s) == encode_inner(sc, s)

\* <BlobTransactionSidecar as Encodable>::length
length(sc) == fields_len(sc)

\* faulty variant: the second and third list read into each other's field
decode_self_swapped(blobs, commitments, proofs) ==
    IF ~proofs.ok THEN proofs
    ELSE Good(new(blobs.val, proofs.val, commitments.val), proofs.rest)

\* Ok(Self { blobs, commitments, proofs }), or the error of `proofs: ..?`
decode_self(blobs, commitments, proofs) ==
    IF ~proofs.ok THEN proofs
    ELSE Good(new(blobs.val, commitments.val, proofs.val), proofs.rest)

\* `proofs: Decodable::decode(buf)?`, or the error of `commitments: ..?`
decode_proofs(blobs, commitments) ==
    IF ~commitments.ok THEN commitments
    ELSE decode_self(blobs, commitments, ListDecode(commitments.rest, BYTES_PER_PROOF))

\* `commitments: Decodable::decode(buf)?`, or the error of `blobs: ..?`
decode_commitments(blobs) ==
    IF ~blobs.ok THEN blobs
    ELSE decode_proofs(blobs, ListDecode(blobs.rest, BYTES_PER_COMMITMENT))

\* <BlobTransactionSidecar as Decodable>::decode
decode(input) == decode_commitments(ListDecode(input, BlobBytes))

(***************************************************************************)
(* BlobTransactionSidecarItem: verify_blob_kzg_proof and verify_blob       *)
(***************************************************************************)
\* Ok(v) of a Result that carries a value
OkValue(v) == [tag |-> "Ok", val |-> v]

\* the library call that was not made
NotCalled == [tag |-> "NotCalled"]

\* the failure a c_kzg from_bytes conversion may answer with: Err(e)
KzgFailures == {[ok |-> FALSE, err |-> [kind |-> "BadArgs"]]}

\* the library's answers to one verify_blob_kzg_proof call: the three
\* conversions and the check, none called after one has failed
KzgItemOutcomes ==
    {[blob |-> b, commitment |-> NotCalled, proof |-> NotCalled, check |-> NotCalled] :
        b \in KzgFailures}
    \cup {[blob |-> [ok |-> TRUE], commitment |-> c, proof |-> NotCalled,
           check |-> NotCalled] : c \in KzgFailures}
    \cup {[blob |-> [ok |-> TRUE], commitment |-> [ok |-> TRUE], proof |-> p,
           check |-> NotCalled] : p \in KzgFailures}
    \cup {[blob |-> [ok |-> TRUE], commitment |-> [ok |-> TRUE], proof |-> [ok |-> TRUE],
           check |-> r] : r \in KzgOutcomes}

\* the BlockNumHash values a caller may hand to verify_blob
BlockNumHashSet == [number : 0..MaxBlobs, hash : HashSet]

\* EnvKzgSettings::Default.get()
DefaultKzgSettings == "default_trusted_setup"

\* one call of the library: the function, its arguments, its answer
KzgCall(fn, args, ret) == [fn |-> fn, args |-> args, ret |-> ret]

\* the library calls of verify_blob_kzg_proof, up to the first that fails
kzg_item_calls(self, lib) ==
    <<KzgCall("Blob::from_bytes", <<self.blob>>, lib.blob)>>
    \o (IF ~lib.blob.ok THEN <<>> ELSE
        <<KzgCall("Bytes48::from_bytes", <<self.kzg_commitment>>, lib.commitment)>>
    \o (IF ~lib.commitment.ok THEN <<>> ELSE
        <<KzgCall("Bytes48::from_bytes", <<self.kzg_proof>>, lib.proof)>>
    \o (IF ~lib.proof.ok THEN <<>> ELSE
        <<KzgCall("KzgProof::verify_blob_kzg_proof",
                  <<self.blob, self.kzg_commitment, self.kzg_proof, DefaultKzgSettings>>,
                  lib.check)>>)))

\* faulty variant: the check's answer handed on as it is, false included
verify_blob_kzg_proof_plain(self, lib) ==
    IF ~lib.blob.ok THEN KZGError(lib.blob.err)
    ELSE IF ~lib.commitment.ok THEN KZGError(lib.commitment.err)
    ELSE IF ~lib.proof.ok THEN KZGError(lib.proof.err)
    ELSE IF ~lib.check.ok THEN KZGError(lib.check.err)
    ELSE OkValue(lib.check.val)

\* BlobTransactionSidecarItem::verify_blob_kzg_proof
verify_blob_kzg_proof(self, lib) ==
    IF ~lib.blob.ok THEN KZGError(lib.blob.err)
    ELSE IF ~lib.commitment.ok THEN KZGError(lib.commitment.err)
    ELSE IF ~lib.proof.ok THEN KZGError(lib.proof.err)
    ELSE IF ~lib.check.ok THEN KZGError(lib.check.err)
    ELSE IF lib.check.val THEN OkValue(TRUE)
    ELSE InvalidProof

\* what one verify_blob call did: its return value, the result of its
\* verify_blob_kzg_proof call if it made one, and the library calls
Returned(ret, proof, calls) == [ret |-> ret, proof |-> proof, calls |-> calls]

\* faulty variant: a library error handed on to the caller
verify_blob_match_passing(r) ==
    IF r = OkValue(TRUE) THEN Ok
    ELSE IF r.tag = "Ok" THEN InvalidProof
    ELSE r

\* the match of verify_blob on the result r of verify_blob_kzg_proof
verify_blob_match(r) ==
    IF r = OkValue(TRUE) THEN Ok
    ELSE IF r.tag = "Ok" THEN InvalidProof
    ELSE InvalidProof

\* faulty variant: the versioned hash compared before the index
verify_blob_hash_first(self, hash, lib) ==
    IF to_kzg_versioned_hash(self) # hash.hash
    THEN Returned(WrongVersionedHash(to_kzg_versioned_hash(self), hash.hash), None, <<>>)
    ELSE IF self.index # hash.number
    THEN Returned(WrongVersionedHash(Take(self.blob, B256_LEN), hash.hash), None, <<>>)
    ELSE Returned(verify_blob_match(verify_blob_kzg_proof(self, lib)),
                  verify_blob_kzg_proof(self, lib), kzg_item_calls(self, lib))

\* BlobTransactionSidecarItem::verify_blob
verify_blob(self, hash, lib) ==
    IF self.index # hash.number
    THEN Returned(WrongVersionedHash(Take(self.blob, B256_LEN), hash.hash), None, <<>>)
    ELSE IF to_kzg_versioned_hash(self) # hash.hash
    THEN Returned(WrongVersionedHash(to_kzg_versioned_hash(self), hash.hash), None, <<>>)
    ELSE Returned(verify_blob_match(verify_blob_kzg_proof(self, lib)),
                  verify_blob_kzg_proof(self, lib), kzg_item_calls(self, lib))

(***************************************************************************)
(* validate                                                                *)
(***************************************************************************)
\* faulty variant: the hashes counted against the blobs
LengthMismatch_blobs(hashes, sc) == Len(hashes) # Len(sc.blobs)

\* the length gate
LengthMismatch(hashes, sc) == Len(hashes) # Len(sc.commitments)

\* faulty variant: the two counts of the message the other way round
LengthError_swapped(hashes, sc) ==
    KZGError(MismatchLength(Len(sc.commitments), Len(hashes)))

\* the error of the length gate
LengthError(hashes, sc) ==
    KZGError(MismatchLength(Len(hashes), Len(sc.commitments)))

\* faulty variant: the loop stops one position early
ZipLen_short(hashes, sc) == Min(Len(hashes), Len(sc.commitments)) - 1

\* length of blob_versioned_hashes.iter().zip(self.commitments.iter())
ZipLen(hashes, sc) == Min(Len(hashes), Len(sc.commitments))

\* the comparison of one zip iteration
HashMismatch(versioned_hash, calculated_versioned_hash) ==
    versioned_hash # calculated_versioned_hash

\* the error of one zip iteration
HashError(versioned_hash, calculated_versioned_hash) ==
    WrongVersionedHash(versioned_hash, calculated_versioned_hash)

\* the arguments handed to verify_blob_kzg_proof_batch
BatchArgs(sc, settings) ==
    [blobs |-> sc.blobs, commitments |-> sc.commitments, proofs |-> sc.proofs,
     settings |-> settings]

\* faulty variant: a library error reported as a failed proof
BatchResult_collapsed(outcome) ==
    IF outcome.ok /\ outcome.val THEN Ok ELSE InvalidProof

\* map_err(KZGError)?, then res -> Ok(()) / Err(InvalidProof)
BatchResult(outcome) ==
    IF ~outcome.ok THEN KZGError(outcome.err)
    ELSE IF outcome.val THEN Ok ELSE InvalidProof

\* no codec call has left anything behind
CodecIdle == wire = <<>> /\ written = None /\ decoded = None

\* no item is held
ItemIdle ==
    /\ item = None /\ item_hash = None
    /\ anchor = None /\ item_calls = <<>> /\ item_proof = None /\ item_result = None

\* no result of size() or iter() is held
QueryIdle == sized = None /\ items = None

\* entry of validate and its length gate
ValidateCall(hashes) ==
    /\ pc = "idle"
    /\ CodecIdle
    /\ ItemIdle
    /\ QueryIdle
    /\ blob_versioned_hashes' = hashes
    /\ kzg_calls' = <<>>
    /\ steps' = <<"length">>
    /\ IF LengthMismatch(hashes, sidecar)
       THEN /\ result' = LengthError(hashes, sidecar)
            /\ pc' = "done"
            /\ idx' = 0
       ELSE /\ result' = None
            /\ pc' = "hashes"
            /\ idx' = 1
    /\ UNCHANGED <<accountVars, queryVars, envVars, codecVars, itemVars>>

\* one iteration of the zip loop
ValidateHash ==
    /\ pc = "hashes"
    /\ idx <= ZipLen(blob_versioned_hashes, sidecar)
    /\ LET versioned_hash == blob_versioned_hashes[idx]
           calculated_versioned_hash == kzg_to_versioned_hash(sidecar.commitments[idx])
       IN  IF HashMismatch(versioned_hash, calculated_versioned_hash)
           THEN /\ result' = HashError(versioned_hash, calculated_versioned_hash)
                /\ pc' = "done"
                /\ idx' = idx
           ELSE /\ result' = result
                /\ pc' = "hashes"
                /\ idx' = idx + 1
    /\ steps' = Append(steps, "hash")
    /\ UNCHANGED <<accountVars, queryVars, envVars, codecVars, itemVars, blob_versioned_hashes, kzg_calls>>

\* the batched proof verification, after the loop has run out
ValidateBatch(outcome) ==
    /\ pc = "hashes"
    /\ idx > ZipLen(blob_versioned_hashes, sidecar)
    /\ kzg_calls' = Append(kzg_calls,
                           [args |-> BatchArgs(sidecar, kzg_settings), ret |-> outcome])
    /\ result' = BatchResult(outcome)
    /\ pc' = "done"
    /\ steps' = Append(steps, "batch")
    /\ UNCHANGED <<accountVars, queryVars, envVars, codecVars, itemVars, blob_versioned_hashes, idx>>

\* the caller takes the result; the call's locals are gone
ValidateReturn ==
    /\ pc = "done"
    /\ pc' = "idle"
    /\ blob_versioned_hashes' = <<>>
    /\ idx' = 0
    /\ result' = None
    /\ kzg_calls' = <<>>
    /\ steps' = <<>>
    /\ UNCHANGED <<accountVars, queryVars, envVars, codecVars, itemVars>>

(***************************************************************************)
(* Calls of the codec                                                      *)
(***************************************************************************)
\* no validate call is running or has left its result behind
ValidateIdle == pc = "idle"

\* the caller's measure of what one encode call appended
Written(n) == [tag |-> "Written", n |-> n]

\* sidecar.encode(&mut buf), while wire has room for one more encoding
Encode ==
    /\ ValidateIdle
    /\ ItemIdle
    /\ QueryIdle
    /\ Len(wire) + fields_len(sidecar) <= MaxEncodes * fields_len(sidecar)
    /\ wire' = encode(sidecar, wire)
    /\ written' = Written(Len(wire') - Len(wire))
    /\ decoded' = None
    /\ UNCHANGED <<accountVars, queryVars, envVars, validateVars, itemVars>>

\* the caller's view of decode's return r: the value, and the buffer advanced
DecodeReturn(r) ==
    /\ decoded' = IF r.ok THEN [ok |-> TRUE, val |-> r.val]
                  ELSE [ok |-> FALSE, err |-> r.err]
    /\ wire' = r.rest

\* BlobTransactionSidecar::decode(&mut buf)
Decode ==
    /\ ValidateIdle
    /\ ItemIdle
    /\ QueryIdle
    /\ DecodeReturn(decode(wire))
    /\ written' = None
    /\ UNCHANGED <<accountVars, queryVars, envVars, validateVars, itemVars>>

\* the caller drops the buffer and the decoded value
CodecDrop ==
    /\ ~CodecIdle
    /\ wire' = <<>>
    /\ written' = None
    /\ decoded' = None
    /\ UNCHANGED <<accountVars, queryVars, envVars, validateVars, itemVars>>

(***************************************************************************)
(* Calls on one item of the sidecar                                        *)
(***************************************************************************)
\* the k-th item of sidecar.iter() and its versioned hash
ItemVersionedHash(k) ==
    /\ ValidateIdle
    /\ CodecIdle
    /\ QueryIdle
    /\ ItemIdle
    /\ k \in DOMAIN iter(sidecar)
    /\ item' = iter(sidecar)[k]
    /\ item_hash' = to_kzg_versioned_hash(item')
    /\ anchor' = None
    /\ item_calls' = <<>>
    /\ item_proof' = None
    /\ item_result' = None
    /\ UNCHANGED <<accountVars, queryVars, envVars, validateVars, codecVars>>

\* item.verify_blob_kzg_proof() on an item of sidecar.iter(), the library
\* answering lib
ItemVerifyBlobKzgProof ==
    /\ ValidateIdle
    /\ CodecIdle
    /\ QueryIdle
    /\ ItemIdle
    /\ \E k \in DOMAIN iter(sidecar), lib \in KzgItemOutcomes :
          /\ item' = iter(sidecar)[k]
          /\ item_calls' = kzg_item_calls(item', lib)
          /\ item_proof' = verify_blob_kzg_proof(item', lib)
    /\ item_hash' = None
    /\ anchor' = None
    /\ item_result' = None
    /\ UNCHANGED <<accountVars, queryVars, envVars, validateVars, codecVars>>

\* the caller's view of one verify_blob call: its return value, and what the
\* call did on the way
VerifyBlobReturn(r) ==
    /\ item_calls' = r.calls
    /\ item_proof' = r.proof
    /\ item_result' = r.ret

\* item.verify_blob(&hash) on an item of sidecar.iter(), for a hash the
\* caller supplies, the library answering lib
ItemVerifyBlob ==
    /\ ValidateIdle
    /\ CodecIdle
    /\ QueryIdle
    /\ ItemIdle
    /\ \E k \in DOMAIN iter(sidecar), hash \in BlockNumHashSet, lib \in KzgItemOutcomes :
          /\ item' = iter(sidecar)[k]
          /\ anchor' = hash
          /\ VerifyBlobReturn(verify_blob(item', hash, lib))
    /\ item_hash' = None
    /\ UNCHANGED <<accountVars, queryVars, envVars, validateVars, codecVars>>

\* the caller drops the item
ItemDrop ==
    /\ ~ItemIdle
    /\ item' = None
    /\ item_hash' = None
    /\ anchor' = None
    /\ item_calls' = <<>>
    /\ item_proof' = None
    /\ item_result' = None
    /\ UNCHANGED <<accountVars, queryVars, envVars, validateVars, codecVars>>

(***************************************************************************)
(* Account (crates/consensus/src/account.rs): trie_hash with its static    *)
(* memo, trie_hash_slow                                                    *)
(***************************************************************************)
\* B256::ZERO
ZeroHash == Bytes(B256_LEN, 0, 0)

\* the Account values of the model
AccountSet ==
    {[nonce |-> n, balance |-> b, storage_root |-> ZeroHash, code_hash |-> ZeroHash] :
        n \in {0, 1}, b \in {0, 300}}

\* <u64 as Encodable>::encode and <U256 as Encodable>::encode: the
\* big-endian bytes without leading zeros, as a byte string
UintEncode(n) == BytesEncode(to_be_bytes(n))

\* the four fields of an Account, encoded one after the other
AccountPayload(a) ==
    UintEncode(a.nonce) \o UintEncode(a.balance)
        \o BytesEncode(a.storage_root) \o BytesEncode(a.code_hash)

\* <Account as Encodable>::encode (derive(RlpEncodable)): a list of the fields
AccountEncode(a, out) ==
    out \o HeaderEncode(TRUE, Len(AccountPayload(a))) \o AccountPayload(a)

\* Account::encode_to_vec
encode_to_vec(self) == AccountEncode(self, <<>>)

\* the encodings Keccak-256 is applied to
AccountEncodings == {encode_to_vec(a) : a \in AccountSet}

\* Keccak-256 digests the hash function may return for an encoding
KeccakDigestSet == {Bytes(B256_LEN, 197, 210), Bytes(B256_LEN, 86, 232)}

Keccak256Functions == [AccountEncodings -> KeccakDigestSet]

\* Keccak256::new(), update(bytes), finalize()
Keccak256(bytes) == keccak256[bytes]

\* the closure trie_hash hands to get_or_init
trie_hash_closure(self) == Keccak256(encode_to_vec(self))

\* Account::trie_hash_slow
trie_hash_slow(self) == Keccak256(AccountEncode(self, <<>>))

\* the threads that call into Account
Threads == {"t1", "t2"}

\* a thread that is in no call and holds no result
ThreadIdle == [pc |-> "idle"]

\* a thread inside the closure of get_or_init, called on self
ThreadInit(self) == [pc |-> "init", self |-> self]

\* a thread that fn(self) has returned ret to
ThreadReturned(fn, self, ret) == [pc |-> "returned", fn |-> fn, self |-> self, ret |-> ret]

\* some thread is running the closure of get_or_init
Initializing == \E u \in Threads : thread[u].pc = "init"

\* a.trie_hash() by thread t, up to get_or_init's look at the cell: a cell
\* that is set is returned, an empty one is initialized by this thread; while
\* another thread is initializing it the call waits
TrieHashCall(t, a) ==
    /\ thread[t] = ThreadIdle
    /\ IF TRIE_HASH # None
       THEN thread' = [thread EXCEPT ![t] = ThreadReturned("trie_hash", a, TRIE_HASH)]
       ELSE /\ ~Initializing
            /\ thread' = [thread EXCEPT ![t] = ThreadInit(a)]
    /\ UNCHANGED <<sidecarVars, keccak256, TRIE_HASH>>

\* the closure of get_or_init has run: the cell is set and its value returned
TrieHashInit(t) ==
    /\ thread[t].pc = "init"
    /\ TRIE_HASH' = trie_hash_closure(thread[t].self)
    /\ thread' = [thread EXCEPT ![t] = ThreadReturned("trie_hash", thread[t].self, TRIE_HASH')]
    /\ UNCHANGED <<sidecarVars, keccak256>>

\* a.trie_hash_slow() by thread t
TrieHashSlow(t, a) ==
    /\ thread[t] = ThreadIdle
    /\ thread' = [thread EXCEPT ![t] = ThreadReturned("trie_hash_slow", a, trie_hash_slow(a))]
    /\ UNCHANGED <<sidecarVars, keccak256, TRIE_HASH>>

\* the caller on thread t takes the result
ThreadReturn(t) ==
    /\ thread[t].pc = "returned"
    /\ thread' = [thread EXCEPT ![t] = ThreadIdle]
    /\ UNCHANGED <<sidecarVars, keccak256, TRIE_HASH>>

(***************************************************************************)
(* Calls of size() and iter()                                              *)
(***************************************************************************)
\* the usize a size() call returned
SizeReturn(n) == [tag |-> "usize", n |-> n]

\* sidecar.size()
Size ==
    /\ ValidateIdle
    /\ CodecIdle
    /\ ItemIdle
    /\ QueryIdle
    /\ sized' = SizeReturn(size(sidecar))
    /\ items' = None
    /\ UNCHANGED <<accountVars, envVars, validateVars, codecVars, itemVars>>

\* what collecting an iterator returned
Collected(yielded) == [tag |-> "Vec", yielded |-> yielded]

\* sidecar.iter().collect()
Iter ==
    /\ ValidateIdle
    /\ CodecIdle
    /\ ItemIdle
    /\ QueryIdle
    /\ items' = Collected(iter(sidecar))
    /\ sized' = None
    /\ UNCHANGED <<accountVars, envVars, validateVars, codecVars, itemVars>>

\* the caller drops what size() or iter() returned
QueryDrop ==
    /\ ~QueryIdle
    /\ sized' = None
    /\ items' = None
    /\ UNCHANGED <<accountVars, envVars, validateVars, codecVars, itemVars>>

Init ==
    /\ sidecar \in Sidecars
    /\ sha256 \in [CommitmentSet -> DigestSet]
    /\ kzg_settings \in KzgSettingsSet
    /\ pc = "idle"
    /\ blob_versioned_hashes = <<>>
    /\ idx = 0
    /\ result = None
    /\ kzg_calls = <<>>
    /\ steps = <<>>
    /\ wire = <<>>
    /\ written = None
    /\ decoded = None
    /\ item = None
    /\ item_hash = None
    /\ anchor = None
    /\ item_calls = <<>>
    /\ item_proof = None
    /\ item_result = None
    /\ sized = None
    /\ items = None
    /\ keccak256 = CHOOSE f \in Keccak256Functions : TRUE
    /\ TRIE_HASH = None
    /\ thread = [t \in Threads |-> ThreadIdle]

Next ==
    \/ \E hashes \in SeqsUpTo(HashSet, MaxBlobs) : ValidateCall(hashes)
    \/ ValidateHash
    \/ \E outcome \in KzgOutcomes : ValidateBatch(outcome)
    \/ ValidateReturn
    \/ Encode
    \/ Decode
    \/ CodecDrop
    \/ \E k \in 1..MaxBlobs : ItemVersionedHash(k)
    \/ ItemVerifyBlobKzgProof
    \/ ItemVerifyBlob
    \/ ItemDrop
    \/ Size
    \/ Iter
    \/ QueryDrop

Spec == Init /\ [][Next]_vars

\* a process that uses only Account: no sidecar call is ever made
AccountInit ==
    /\ sidecar = new(<<>>, <<>>, <<>>)
    /\ sha256 = CHOOSE f \in [CommitmentSet -> DigestSet] : TRUE
    /\ kzg_settings \in KzgSettingsSet
    /\ pc = "idle"
    /\ blob_versioned_hashes = <<>>
    /\ idx = 0
    /\ result = None
    /\ kzg_calls = <<>>
    /\ steps = <<>>
    /\ CodecIdle
    /\ ItemIdle
    /\ QueryIdle
    /\ keccak256 \in Keccak256Functions
    /\ TRIE_HASH = None
    /\ thread = [t \in Threads |-> ThreadIdle]

AccountNext ==
    \/ \E t \in Threads, a \in AccountSet : TrieHashCall(t, a)
    \/ \E t \in Threads : TrieHashInit(t)
    \/ \E t \in Threads, a \in AccountSet : TrieHashSlow(t, a)
    \/ \E t \in Threads : ThreadReturn(t)

AccountSpec == AccountInit /\ [][AccountNext]_vars

(***************************************************************************)
(* Properties                                                              *)
(***************************************************************************)
\* the running call was given as many hashes as the sidecar has commitments
LengthsAgree == Len(blob_versioned_hashes) = Len(sidecar.commitments)

\* position i's expected hash differs from the hash of commitment i
Mismatch(i) ==
    blob_versioned_hashes[i] # kzg_to_versioned_hash(sidecar.commitments[i])

\* the mismatching positions (the lengths agreeing)
Mismatches == {i \in 1..Len(sidecar.commitments) : Mismatch(i)}

LowestMismatch == CHOOSE i \in Mismatches : \A j \in Mismatches : i <= j

\* <<"length">>, n times "hash"
GatesUpTo(n) == [k \in 1..(n + 1) |-> IF k = 1 THEN "length" ELSE "hash"]

\* C1: with a number of expected hashes different from the number of
\* commitments, validate returns KZGError(MismatchLength(..)) whose message
\* carries the number of hashes and the number of commitments, whatever the
\* blobs, proofs and hash values are.
C1_LengthMismatchError ==
    (pc # "idle" /\ ~LengthsAgree) =>
        /\ pc = "done"
        /\ result = [tag |-> "KZGError",
                     source |-> [kind |-> "MismatchLength",
                                 msg |-> <<"There are ", Len(blob_versioned_hashes),
                                           " versioned commitment hashes and ",
                                           Len(sidecar.commitments), " commitments">>]]

C1_Witness ==
    /\ pc = "done"
    /\ Len(blob_versioned_hashes) = 2
    /\ Len(sidecar.commitments) = 1
    /\ Len(sidecar.blobs) = 2
    /\ result.tag = "KZGError"

C3_HaveIsRecomputed ==
    (/\ pc = "done"
     /\ Len(sidecar.blobs) = 1 /\ Len(sidecar.commitments) = 1 /\ Len(sidecar.proofs) = 1
     /\ Len(blob_versioned_hashes) = 1
     /\ Mismatch(1)) =>
        result = [tag |-> "WrongVersionedHash",
                  have |-> kzg_to_versioned_hash(sidecar.commitments[1]),
                  expected |-> blob_versioned_hashes[1]]

\* what validate is to return for the answer ret of the batched verification
OracleVerdict(ret) ==
    IF ~ret.ok THEN [tag |-> "KZGError", source |-> ret.err]
    ELSE IF ret.val THEN [tag |-> "Ok"] ELSE [tag |-> "InvalidProof"]

\* C4: when the length check and every hash check pass, the batched
\* verification is applied to the sidecar's blobs, commitments and proofs and
\* alone decides the result: true gives Ok(()), false gives InvalidProof, an
\* error e gives KZGError(e).
C4_OracleDecides ==
    (pc = "done" /\ LengthsAgree /\ Mismatches = {}) =>
        /\ Len(kzg_calls) = 1
        /\ kzg_calls[1].args = [blobs |-> sidecar.blobs,
                                commitments |-> sidecar.commitments,
                                proofs |-> sidecar.proofs,
                                settings |-> kzg_settings]
        /\ result = OracleVerdict(kzg_calls[1].ret)

C4_Witness ==
    /\ pc = "done"
    /\ Len(sidecar.commitments) = 2
    /\ LengthsAgree
    /\ Mismatches = {}
    /\ result = [tag |-> "Ok"]

\* the gates a call has executed are in order, the batched verification is
\* called at most once and only behind the length gate and every hash gate
C5_Gates ==
    /\ Len(kzg_calls) <= 1
    /\ \A k \in 1..Len(steps) :
          /\ (steps[k] = "length") <=> (k = 1)
          /\ (steps[k] = "batch") => (k = Len(steps))
    /\ kzg_calls # <<>> =>
          /\ LengthsAgree
          /\ Mismatches = {}
          /\ steps = Append(GatesUpTo(Len(sidecar.commitments)), "batch")
    /\ (pc # "idle" /\ ~LengthsAgree) => kzg_calls = <<>>
    /\ (pc # "idle" /\ LengthsAgree /\ Mismatches # {}) => kzg_calls = <<>>

\* a step of a validate call changes neither the sidecar nor the trusted setup
C5_Borrowed ==
    (pc # "idle" \/ pc' # "idle") =>
        (sidecar' = sidecar /\ kzg_settings' = kzg_settings)

\* C5: validate runs the length check, the per-position hash checks and the
\* batched verification in this order, each a hard gate: the verification is
\* called at most once, only after every earlier check has passed, never when
\* one has failed; the sidecar and the trusted setup are left unchanged.
C5_GatesInOrder == []C5_Gates /\ [][C5_Borrowed]_vars

C5_Witness ==
    /\ pc = "done"
    /\ Len(kzg_calls) = 1
    /\ steps = <<"length", "hash", "hash", "batch">>

\* C6: validate returns InvalidProof if the batched verification finds a
\* proof not to verify, or if the expected hashes do not match the hashes of
\* the sidecar's commitments.
C6_InvalidProofOnMismatch ==
    (/\ pc = "done"
     /\ LengthsAgree
     /\ \/ Mismatches # {}
        \/ (kzg_calls # <<>> /\ kzg_calls[1].ret.ok /\ ~kzg_calls[1].ret.val)) =>
        result = [tag |-> "InvalidProof"]

\* h is the versioned hash of commitment c
IsVersionedHashOf(h, c) ==
    /\ DOMAIN h = 1..32
    /\ h[1] = 1
    /\ \A j \in 2..32 : h[j] = Sha256(c)[j]

\* C8: the versioned hash of an item is 32 bytes, byte 0 the version tag 1,
\* bytes 1..31 those of SHA256(commitment); it is defined for every item and
\* items of equal commitments have equal hashes.
C8_VersionedHash ==
    /\ item_hash # None => IsVersionedHashOf(item_hash, item.kzg_commitment)
    /\ \A k \in DOMAIN iter(sidecar) :
          IsVersionedHashOf(to_kzg_versioned_hash(iter(sidecar)[k]),
                            sidecar.commitments[k])
    /\ \A k1, k2 \in DOMAIN iter(sidecar) :
          sidecar.commitments[k1] = sidecar.commitments[k2] =>
              to_kzg_versioned_hash(iter(sidecar)[k1])
                = to_kzg_versioned_hash(iter(sidecar)[k2])

C8_Witness ==
    /\ item_hash # None
    /\ item.index = 1
    /\ Sha256(item.kzg_commitment)[1] # 1
    /\ item_hash[1] = 1
    /\ sidecar.commitments[1] = sidecar.commitments[2]
    /\ sidecar.blobs[1] # sidecar.blobs[2]

\* the three sequences of the sidecar have one length
EqualLengths(sc) ==
    Len(sc.blobs) = Len(sc.commitments) /\ Len(sc.commitments) = Len(sc.proofs)

\* a decode call on a buffer that holds an encoding of the sidecar returns
\* the sidecar
C9_DecodeStep ==
    (decoded' # None /\ wire # <<>> /\ EqualLengths(sidecar)) =>
        decoded' = [ok |-> TRUE, val |-> sidecar]

\* C9: for every sidecar of equal-length sequences, the empty one included,
\* decoding the bytes encode produced returns a sidecar equal to the
\* original.
C9_RoundTrip == [][C9_DecodeStep]_vars

C9_Witness ==
    /\ decoded = [ok |-> TRUE, val |-> sidecar]
    /\ Len(sidecar.blobs) = 2 /\ Len(sidecar.commitments) = 2 /\ Len(sidecar.proofs) = 2
    /\ sidecar.blobs[1] # sidecar.blobs[2]
    /\ sidecar.commitments[1] # sidecar.commitments[2]
    /\ wire # <<>>

\* C10: for every sidecar, whatever the lengths of its sequences,
\* fields_len() and length() equal the number of bytes encode writes.
C10_FieldsLenExact ==
    written # None =>
        /\ fields_len(sidecar) = written.n
        /\ length(sidecar) = written.n

C10_Witness ==
    /\ written # None
    /\ Len(wire) = 2 * written.n
    /\ Len(sidecar.blobs) = 2 /\ Len(sidecar.commitments) = 1 /\ Len(sidecar.proofs) = 0
\* an encode call appends the three list encodings, blobs first, proofs last,
\* with nothing in front of them and nothing between them
C11_EncodeStep ==
    (written' # None /\ wire' # wire) =>
        /\ wire' = wire \o ListEncode(sidecar.blobs)
                        \o ListEncode(sidecar.commitments)
                        \o ListEncode(sidecar.proofs)
        /\ Drop(wire', Len(wire))[1] = ListEncode(sidecar.blobs)[1]

\* a decode call that succeeds has read three lists off the front of the
\* buffer, into blobs, commitments and proofs in that order
C11_DecodeStep ==
    (decoded' # None /\ decoded'.ok) =>
        LET blobs == ListDecode(wire, BlobBytes)
            commitments == ListDecode(blobs.rest, BYTES_PER_COMMITMENT)
            proofs == ListDecode(commitments.rest, BYTES_PER_PROOF)
        IN  /\ blobs.ok /\ commitments.ok /\ proofs.ok
            /\ decoded'.val.blobs = blobs.val
            /\ decoded'.val.commitments = commitments.val
            /\ decoded'.val.proofs = proofs.val
            /\ wire' = proofs.rest

\* C11: encode writes exactly the list encoding of the blobs, then of the
\* commitments, then of the proofs, with no header or length prefix around
\* the three; decode reads the three lists in the same order.
C11_ThreeListsInOrder == [][C11_EncodeStep /\ C11_DecodeStep]_vars

C11_Witness ==
    /\ written # None
    /\ Len(sidecar.blobs) = 1 /\ Len(sidecar.commitments) = 2 /\ Len(sidecar.proofs) = 1
    /\ wire = ListEncode(sidecar.blobs) \o ListEncode(sidecar.commitments)
                \o ListEncode(sidecar.proofs)
    /\ ListEncode(sidecar.commitments) # ListEncode(sidecar.proofs)
    /\ wire[1] = EMPTY_LIST_CODE + RLP_SHORT_MAX + 1
    /\ wire[2] = PayloadLength(sidecar.blobs)

\* the first 32 bytes of a blob
BlobHashPart(blob) == [j \in 1..B256_LEN |-> blob[j]]

\* C12: verify_blob checks the position before the hash: when item.index
\* differs from the anchor's number it returns WrongVersionedHash with have =
\* the first 32 bytes of the blob and expected = the anchor's hash, whatever
\* the commitment is; otherwise, when the versioned hash of the item's
\* commitment differs from the anchor's hash, it returns WrongVersionedHash
\* with have = the recomputed hash and expected = the anchor's hash.
C12_IndexBeforeHash ==
    item_result # None =>
        /\ item.index # anchor.number =>
              item_result = WrongVersionedHash(BlobHashPart(item.blob), anchor.hash)
        /\ (item.index = anchor.number
              /\ kzg_to_versioned_hash(item.kzg_commitment) # anchor.hash) =>
              item_result = WrongVersionedHash(kzg_to_versioned_hash(item.kzg_commitment),
                                               anchor.hash)

C12_Witness ==
    /\ item_result # None
    /\ item.index = 1
    /\ anchor.number = 0
    /\ item.blob[1] = 171
    /\ kzg_to_versioned_hash(item.kzg_commitment) # anchor.hash
    /\ item_result.have = BlobHashPart(item.blob)
    /\ item_result.have # kzg_to_versioned_hash(item.kzg_commitment)
    /\ item_result.expected = anchor.hash

\* the library was asked to check the proof and answered true
ProofVerified(calls) ==
    /\ calls # <<>>
    /\ calls[Len(calls)].fn = "KzgProof::verify_blob_kzg_proof"
    /\ calls[Len(calls)].ret = [ok |-> TRUE, val |-> TRUE]

\* C13: verify_blob invokes the single-item proof verification only when
\* both the index check and the versioned-hash check pass; then it returns
\* Ok(()) exactly when the proof verifies as true and InvalidProof for every
\* other outcome, a false verification and a library error alike; it never
\* returns KZGError.
C13_ProofDecides ==
    item_result # None =>
        /\ (item_proof # None) <=>
              (item.index = anchor.number
                  /\ IsVersionedHashOf(anchor.hash, item.kzg_commitment))
        /\ (item_calls # <<>>) <=> (item_proof # None)
        /\ item_proof # None =>
              /\ (item_result = Ok) <=> ProofVerified(item_calls)
              /\ ~ProofVerified(item_calls) => item_result = InvalidProof
        /\ item_result.tag # "KZGError"

C13_Witness ==
    /\ item_result = InvalidProof
    /\ item.index = 1
    /\ item_proof # None
    /\ item_proof.tag = "KZGError"
    /\ Len(item_calls) = 4
    /\ ~item_calls[4].ret.ok

\* the bytes held by the elements of a sequence of byte strings
RECURSIVE TotalBytes(_)
TotalBytes(v) == IF v = <<>> THEN 0 ELSE Len(Head(v)) + TotalBytes(Tail(v))

\* C14: size() returns len(blobs)*BYTES_PER_BLOB +
\* len(commitments)*BYTES_PER_COMMITMENT + len(proofs)*BYTES_PER_PROOF for
\* every sidecar, which is the number of bytes its elements hold; with n
\* elements in each sequence that is n*(BYTES_PER_BLOB + BYTES_PER_COMMITMENT
\* + BYTES_PER_PROOF), and it is 0 for the empty sidecar.
C14_SizeIsSum ==
    sized # None =>
        /\ sized.n = Len(sidecar.blobs) * BYTES_PER_BLOB
                        + Len(sidecar.commitments) * BYTES_PER_COMMITMENT
                        + Len(sidecar.proofs) * BYTES_PER_PROOF
        /\ sized.n = TotalBytes(sidecar.blobs) + TotalBytes(sidecar.commitments)
                        + TotalBytes(sidecar.proofs)
        /\ EqualLengths(sidecar) =>
              sized.n = Len(sidecar.blobs)
                          * (BYTES_PER_BLOB + BYTES_PER_COMMITMENT + BYTES_PER_PROOF)
        /\ sidecar = new(<<>>, <<>>, <<>>) => sized.n = 0

C14_Witness ==
    /\ sized # None
    /\ Len(sidecar.blobs) = 1 /\ Len(sidecar.commitments) = 2 /\ Len(sidecar.proofs) = 0
    /\ sized.n = BYTES_PER_BLOB + 2 * BYTES_PER_COMMITMENT

\* C15: a.trie_hash() returns the Keccak-256 of a's own RLP encoding, the
\* value a.trie_hash_slow() returns, for every account a and after any
\* earlier trie_hash and trie_hash_slow calls on any accounts from any thread.
C15_TrieHashOfSelf ==
    \A t \in Threads :
        (thread[t].pc = "returned" /\ thread[t].fn = "trie_hash") =>
            /\ thread[t].ret = Keccak256(encode_to_vec(thread[t].self))
            /\ thread[t].ret = trie_hash_slow(thread[t].self)

\* the shortest of the three sequences of a sidecar
ShortestLen(sc) == Min(Len(sc.blobs), Min(Len(sc.commitments), Len(sc.proofs)))

\* C16: iter() yields exactly min(len(blobs), len(commitments), len(proofs))
\* items in position order; the k-th item (0-based) has index k and carries
\* blobs[k], commitments[k] and proofs[k]; with sequences of unequal length
\* the elements past the shortest are left out and no error is raised.
C16_IterZips ==
    items # None =>
        /\ items.tag = "Vec"
        /\ Len(items.yielded) = ShortestLen(sidecar)
        /\ \A k \in 1..ShortestLen(sidecar) :
              /\ items.yielded[k].index = k - 1
              /\ items.yielded[k].blob = sidecar.blobs[k]
              /\ items.yielded[k].kzg_commitment = sidecar.commitments[k]
              /\ items.yielded[k].kzg_proof = sidecar.proofs[k]

C16_Witness ==
    /\ items # None
    /\ Len(sidecar.blobs) = 2 /\ Len(sidecar.commitments) = 2 /\ Len(sidecar.proofs) = 1
    /\ sidecar.blobs[1] # sidecar.blobs[2]
    /\ Len(items.yielded) = 1
    /\ items.yielded[1].index = 0

\* the last library call of the verify_blob_kzg_proof call
LastCall == item_calls[Len(item_calls)]

\* C17: verify_blob_kzg_proof never returns Ok(false): it returns Ok(true)
\* when the single-blob check answers true, Err(InvalidProof) when it answers
\* false, and Err(KZGError(e)) when a conversion or the check fails with
\* library error e; so verify_blob never sees Ok(false).
C17_NeverOkFalse ==
    item_proof # None =>
        /\ item_proof # OkValue(FALSE)
        /\ item_calls # <<>>
        /\ ~LastCall.ret.ok => item_proof = KZGError(LastCall.ret.err)
        /\ LastCall.ret.ok =>
              /\ LastCall.fn = "KzgProof::verify_blob_kzg_proof"
              /\ LastCall.ret.val => item_proof = OkValue(TRUE)
              /\ ~LastCall.ret.val => item_proof = InvalidProof
        /\ item_result # None =>
              (item_proof.tag = "Ok" => item_result = Ok)

C17_Witness ==
    /\ item_proof = InvalidProof
    /\ item_result = None
    /\ Len(item_calls) = 4
    /\ LastCall.ret = [ok |-> TRUE, val |-> FALSE]

====
